---- MODULE Spec2Model ----
(***************************************************************************)
(* Model of the finance_flow ledger (src/main.py): the CSV class           *)
(* (initialize_csv, add_entry, get_transactions), the totals computed in   *)
(* main, and the resample / combine step of create_visualizations.         *)
(*                                                                         *)
(* The ledger file is a sequence of lines.  A date is stored as the text   *)
(* strftime("%d-%m-%Y") produces, modelled as its eight digits, and is     *)
(* parsed back on every read.  Amounts are whole numbers (their text form  *)
(* reads back as the same number).                                         *)
(***************************************************************************)
EXTENDS Integers, Sequences, FiniteSets, TLC

\* Largest number of transaction rows a ledger holds in the model.
MaxRows == 3

\* Appends made by each of the two concurrent processes.
MaxAppends == 2

-----------------------------------------------------------------------------
(* Calendar dates and the fixed text format.                               *)

Date(d, m, y) == [day |-> d, month |-> m, year |-> y]

IsLeap(y) == (y % 4 = 0 /\ y % 100 # 0) \/ y % 400 = 0

DaysInMonth(y, m) ==
    IF m = 2 THEN (IF IsLeap(y) THEN 29 ELSE 28)
    ELSE IF m \in {4, 6, 9, 11} THEN 30 ELSE 31

\* datetime comparison: a < b.
Earlier(a, b) ==
    \/ a.year < b.year
    \/ a.year = b.year /\ a.month < b.month
    \/ a.year = b.year /\ a.month = b.month /\ a.day < b.day

NotLater(a, b) == a = b \/ Earlier(a, b)

\* date.strftime("%d-%m-%Y"): two digits of day, two of month, four of year.
strftime(d) ==
    << d.day \div 10, d.day % 10,
       d.month \div 10, d.month % 10,
       d.year \div 1000, (d.year \div 100) % 10, (d.year \div 10) % 10, d.year % 10 >>

\* datetime.strptime(text, "%d-%m-%Y") / pd.to_datetime(text, format=...).
strptime(t) ==
    [ day   |-> 10 * t[1] + t[2],
      month |-> 10 * t[3] + t[4],
      year  |-> 1000 * t[5] + 100 * t[6] + 10 * t[7] + t[8] ]

\* Order of two date texts compared as strings (character by character).
RECURSIVE TextLeqFrom(_, _, _)
TextLeqFrom(s, t, i) ==
    IF i > Len(s) THEN TRUE
    ELSE IF s[i] < t[i] THEN TRUE
    ELSE IF s[i] > t[i] THEN FALSE
    ELSE TextLeqFrom(s, t, i + 1)

TextLeq(s, t) == TextLeqFrom(s, t, 1)

-----------------------------------------------------------------------------
(* The ledger file.                                                        *)

COLUMNS == << "date", "amount", "category", "description" >>

\* The line DataFrame(columns=COLUMNS).to_csv(index=False) writes.
HeaderLine == [kind |-> "header", cells |-> COLUMNS]

NoFile == [exists |-> FALSE, lines |-> << >>]

\* csv.DictWriter.writerow(new_entry): the four fields in COLUMNS order.
writerow(e) ==
    [ kind        |-> "row",
      date        |-> e.date,
      amount      |-> e.amount,
      category    |-> e.category,
      description |-> e.description ]

\* A text cell as pandas holds it after read_csv: missing (NaN) or a string.
Str(s) == [isna |-> FALSE, text |-> s]
NaN == [isna |-> TRUE, text |-> ""]

\* Cell texts read_csv turns into NaN by default (keep_default_na); the empty
\* field is the one the model's inputs produce.
NaValues == {"", "NA", "N/A", "NaN", "nan", "null", "NULL", "#N/A"}

ReadCell(s) == IF s \in NaValues THEN NaN ELSE Str(s)

\* pd.read_csv(CSV_FILE): the first line names the columns, whatever it holds;
\* every later line is a data row, indexed from 0.
read_csv(f) ==
    IF ~f.exists
    THEN [error |-> "FileNotFoundError", header |-> HeaderLine, rows |-> << >>]
    ELSE IF f.lines = << >>
    THEN [error |-> "EmptyDataError", header |-> HeaderLine, rows |-> << >>]
    ELSE [ error  |-> "",
           header |-> Head(f.lines),
           rows   |-> [ i \in 1 .. (Len(f.lines) - 1) |->
                        LET l == f.lines[i + 1] IN
                        [ index       |-> i - 1,
                          date        |-> l.date,
                          amount      |-> l.amount,
                          category    |-> ReadCell(l.category),
                          description |-> ReadCell(l.description) ] ] ]

\* CSV.initialize_csv, the except branch: to_csv opens the file for writing
\* (truncating it) and writes the header line.
to_csv_header == [exists |-> TRUE, lines |-> << HeaderLine >>]

\* Always rewriting the file (no existence test).
initialize_csv_truncating(f) == to_csv_header

\* CSV.initialize_csv: create the header-only file when read_csv finds none.
initialize_csv(f) ==
    IF read_csv(f).error = "FileNotFoundError" THEN to_csv_header ELSE f

\* CSV.add_entry: open(CSV_FILE, "a") creates the file when absent, then one
\* row is written at the end.
add_entry(f, e) == [exists |-> TRUE, lines |-> Append(f.lines, writerow(e))]

\* The mask with the upper bound exclusive.
mask_exclusive(date, start_date, end_date) ==
    NotLater(start_date, date) /\ Earlier(date, end_date)

\* The mask comparing the date texts instead of the parsed dates.
mask_text(date, start_date, end_date) ==
    /\ TextLeq(strftime(start_date), strftime(date))
    /\ TextLeq(strftime(date), strftime(end_date))

\* (df["date"] >= start_date) & (df["date"] <= end_date)
mask(date, start_date, end_date) ==
    NotLater(start_date, date) /\ NotLater(date, end_date)

RECURSIVE loc(_, _, _)
\* df.loc[mask]: the rows the mask selects, in the frame's order.
loc(rows, start_date, end_date) ==
    IF rows = << >> THEN << >>
    ELSE IF mask(Head(rows).date, start_date, end_date)
         THEN << Head(rows) >> \o loc(Tail(rows), start_date, end_date)
         ELSE loc(Tail(rows), start_date, end_date)

Raised(err) == [error |-> err, df |-> << >>]
Returned(rows) == [error |-> "", df |-> rows]
None == Returned(<< >>)

\* CSV.get_transactions(start_date, end_date), both bounds given as text.
get_transactions(f, start_text, end_text) ==
    LET r == read_csv(f) IN
    IF r.error # "" THEN Raised(r.error)
    ELSE IF r.header # HeaderLine THEN Raised("KeyError")
    ELSE LET df == [ i \in 1 .. Len(r.rows) |->
                     [ r.rows[i] EXCEPT !.date = strptime(@) ] ]
         IN Returned(loc(df, strptime(start_text), strptime(end_text)))

-----------------------------------------------------------------------------
(* Totals, resampling and the combined table.                              *)

RECURSIVE sum(_)
\* Series.sum() of the amount column; the empty sum is 0.
sum(rows) == IF rows = << >> THEN 0 ELSE Head(rows).amount + sum(Tail(rows))

\* Selecting every row whose category is not the other of the two.
select_not_other(df, category) ==
    LET other == IF category = "Income" THEN "Expense" ELSE "Income"
    IN SelectSeq(df, LAMBDA r : r.category # Str(other))

\* df[df["category"] == category]
select(df, category) == SelectSeq(df, LAMBDA r : r.category = Str(category))

\* df[df["category"] == category]["amount"].sum()
total(df, category) == sum(select(df, category))

NextDay(d) ==
    IF d.day < DaysInMonth(d.year, d.month) THEN Date(d.day + 1, d.month, d.year)
    ELSE IF d.month < 12 THEN Date(1, d.month + 1, d.year)
    ELSE Date(1, 1, d.year + 1)

MonthEnd(d) == Date(DaysInMonth(d.year, d.month), d.month, d.year)
MonthStart(d) == Date(1, d.month, d.year)

\* Month bins labelled by the first day of the month.
label_month_start(rule, d) == IF rule = "D" THEN d ELSE MonthStart(d)

\* The label of the bin a timestamp falls in: "D" bins are days, labelled by
\* the day; "M" is month-end frequency, its bins labelled by the month's last day.
label(rule, d) == IF rule = "D" THEN d ELSE MonthEnd(d)

\* The label of the bin after the one labelled l.
next_label(rule, l) ==
    IF rule = "D" THEN NextDay(l) ELSE label(rule, NextDay(MonthEnd(l)))

RECURSIVE bins(_, _, _)
\* Every bin label from lo to hi, ascending (resample leaves no gap).
bins(rule, lo, hi) ==
    IF Earlier(hi, lo) THEN << >>
    ELSE << lo >> \o bins(rule, next_label(rule, lo), hi)

\* df_indexed[df_indexed["category"] == category].resample(rule).sum(), the
\* amount column: one bin for every period from the first row's to the last
\* row's, each holding the sum of the rows in it (0 when it has none).
resample(df, category, rule) ==
    LET rows == select(df, category) IN
    IF rows = << >> THEN << >>
    ELSE LET first == CHOOSE i \in 1 .. Len(rows) :
                        \A j \in 1 .. Len(rows) : NotLater(rows[i].date, rows[j].date)
             last  == CHOOSE i \in 1 .. Len(rows) :
                        \A j \in 1 .. Len(rows) : NotLater(rows[j].date, rows[i].date)
             ls    == bins(rule, label(rule, rows[first].date), label(rule, rows[last].date))
         IN [ i \in 1 .. Len(ls) |->
              [ date   |-> ls[i],
                amount |-> sum(SelectSeq(rows, LAMBDA r : label(rule, r.date) = ls[i])) ] ]

\* A numeric cell of a frame: a number or NaN.
Num(v) == [isna |-> FALSE, value |-> v]
NumNaN == [isna |-> TRUE, value |-> 0]

\* a - b on cells: NaN when either side is NaN.
Minus(a, b) == IF a.isna \/ b.isna THEN NumNaN ELSE Num(a.value - b.value)

\* The value of a series at a label, NaN when the series has no such label.
At(ts, l) ==
    IF \E i \in 1 .. Len(ts) : ts[i].date = l
    THEN Num(ts[CHOOSE i \in 1 .. Len(ts) : ts[i].date = l].amount)
    ELSE NumNaN

RECURSIVE union(_, _)
\* The union of two ascending indexes, ascending, each label once.
union(a, b) ==
    IF a = << >> THEN b
    ELSE IF b = << >> THEN a
    ELSE IF Head(a) = Head(b) THEN << Head(a) >> \o union(Tail(a), Tail(b))
    ELSE IF Earlier(Head(a), Head(b)) THEN << Head(a) >> \o union(Tail(a), b)
    ELSE << Head(b) >> \o union(a, Tail(b))

Index(ts) == [i \in 1 .. Len(ts) |-> ts[i].date]

\* pd.DataFrame({'Income': ..., 'Expense': ...}) followed by the Net column.
\* An empty series is replaced by the scalar 0, which is broadcast over the
\* other column's index; two series are aligned on the union of their indexes
\* and a label missing from one of them is NaN there; two scalars raise.
combined(income_ts, expense_ts) ==
    IF income_ts = << >> /\ expense_ts = << >> THEN [error |-> "ValueError", rows |-> << >>]
    ELSE LET idx == union(Index(income_ts), Index(expense_ts))
             inc(l) == IF income_ts = << >> THEN Num(0) ELSE At(income_ts, l)
             exp(l) == IF expense_ts = << >> THEN Num(0) ELSE At(expense_ts, l)
         IN [ error |-> "",
              rows  |-> [ i \in 1 .. Len(idx) |->
                          [ date    |-> idx[i],
                            Income  |-> inc(idx[i]),
                            Expense |-> exp(idx[i]),
                            Net     |-> Minus(inc(idx[i]), exp(idx[i])) ] ] ]

-----------------------------------------------------------------------------
(* Inputs.                                                                 *)

\* Dates the date pickers return: two in one month with days between them,
\* one in the next month.  As texts their order differs from their order as
\* dates ("02-02-2024" sorts before "27-01-2024").
Dates == { Date(27, 1, 2024), Date(30, 1, 2024), Date(2, 2, 2024) }

DateTexts == { strftime(d) : d \in Dates }

Entry(date_text, amount, category, description) ==
    [date |-> date_text, amount |-> amount, category |-> category,
     description |-> description]

\* What the "Add Transaction" form submits: a date, an amount >= 0, one of the
\* selectbox's two categories, a description.  Every date occurs with both
\* categories, and the amounts differ so that sums tell the rows apart.
FormEntries ==
    { Entry(strftime(Date(27, 1, 2024)), 100, "Income", "Salary"),
      Entry(strftime(Date(27, 1, 2024)), 40, "Expense", "Rent"),
      Entry(strftime(Date(30, 1, 2024)), 60, "Income", "Salary"),
      Entry(strftime(Date(30, 1, 2024)), 30, "Expense", "Rent"),
      Entry(strftime(Date(2, 2, 2024)), 80, "Income", "Bonus"),
      Entry(strftime(Date(2, 2, 2024)), 20, "Expense", "Food") }

\* What callers of CSV.add_entry pass: any category, any description (the
\* text input's default is the empty string).
ApiEntries ==
    { Entry(strftime(d), 100, c, t) :
        d \in { Date(27, 1, 2024), Date(2, 2, 2024) },
        c \in {"Income", "Other"},
        t \in {"", "Salary"} }

\* Ledgers found on disk when the program starts: none, or one written
\* earlier through CSV.add_entry holding a row of another category.
StoredLedgers ==
    { NoFile,
      add_entry(to_csv_header, Entry(strftime(Date(30, 1, 2024)), 20, "Other", "Gift")) }

-----------------------------------------------------------------------------
(* State.                                                                  *)

VARIABLES
    file,           \* finance_data.csv: whether it exists, and its lines
    op,             \* the CSV method called last
    args,           \* the bounds given to the last get_transactions, or << >>
    ret,            \* what the last get_transactions returned or raised
    appended,       \* the entries passed to add_entry so far, in order
    total_income,   \* main: the three metrics shown
    total_expense,
    balance,
    viz_type,       \* create_visualizations: the visualization selected, or ""
    time_period,    \* create_visualizations: "Daily", "Monthly", or "" (not asked)
    income_ts,      \* create_visualizations: the two resampled series
    expense_ts,
    combined_df,    \* create_visualizations: the Income/Expense/Net table
    pc,             \* concurrent processes: where each one is
    found,          \* concurrent processes: what initialize_csv's read found
    written         \* concurrent processes: the entries each one appended

page == << total_income, total_expense, balance, viz_type, time_period, income_ts,
           expense_ts, combined_df >>
procs == << pc, found, written >>
vars == << file, op, args, ret, appended, page, procs >>

Procs == {1, 2}

NoTable == [error |-> "", rows |-> << >>]

\* A page showing no metrics and no chart.
BlankPage ==
    /\ total_income = 0
    /\ total_expense = 0
    /\ balance = 0
    /\ viz_type = ""
    /\ time_period = ""
    /\ income_ts = << >>
    /\ expense_ts = << >>
    /\ combined_df = NoTable

BlankPageNext ==
    /\ total_income' = 0
    /\ total_expense' = 0
    /\ balance' = 0
    /\ viz_type' = ""
    /\ time_period' = ""
    /\ income_ts' = << >>
    /\ expense_ts' = << >>
    /\ combined_df' = NoTable

IdleProcs ==
    /\ pc = [p \in Procs |-> "idle"]
    /\ found = [p \in Procs |-> FALSE]
    /\ written = [p \in Procs |-> << >>]

RowCount(f) == Cardinality({ i \in 1 .. Len(f.lines) : f.lines[i] # HeaderLine })

-----------------------------------------------------------------------------
(* The CSV class called directly, its methods in any order.                *)

InitApi ==
    /\ file = NoFile
    /\ op = ""
    /\ args = << >>
    /\ ret = None
    /\ appended = << >>
    /\ BlankPage
    /\ IdleProcs

Initialize ==
    /\ file' = initialize_csv(file)
    /\ op' = "initialize_csv"
    /\ args' = << >>
    /\ ret' = None
    /\ UNCHANGED << appended, page, procs >>

AddEntry(e) ==
    /\ RowCount(file) < MaxRows
    /\ file' = add_entry(file, e)
    /\ op' = "add_entry"
    /\ args' = << >>
    /\ ret' = None
    /\ appended' = Append(appended, e)
    /\ UNCHANGED << page, procs >>

GetTransactions(start_text, end_text) ==
    /\ args' = << start_text, end_text >>
    /\ ret' = get_transactions(file, start_text, end_text)
    /\ op' = "get_transactions"
    /\ UNCHANGED << file, appended, page, procs >>

NextApi ==
    \/ Initialize
    \/ \E e \in ApiEntries : AddEntry(e)
    \/ \E s \in DateTexts, e \in DateTexts : GetTransactions(s, e)

SpecApi == InitApi /\ [][NextApi]_vars

-----------------------------------------------------------------------------
(* The program: every run of main calls initialize_csv first, then serves  *)
(* the page selected in the menu.                                          *)

Init ==
    /\ file \in StoredLedgers
    /\ op = ""
    /\ args = << >>
    /\ ret = None
    /\ appended = << >>
    /\ BlankPage
    /\ IdleProcs

\* The selections create_visualizations computes series for: "Time Series"
\* resamples by day; "Daily/Monthly Analysis" by the period chosen and builds
\* the combined table.  The other two types compute no series.
Visualizations ==
    { << "Time Series", "" >>,
      << "Daily/Monthly Analysis", "Daily" >>,
      << "Daily/Monthly Analysis", "Monthly" >> }

\* create_visualizations(df) for a non-empty df.
create_visualizations(df, viz) ==
    LET rule == IF viz[2] = "Monthly" THEN "M" ELSE "D" IN
    /\ viz_type' = viz[1]
    /\ time_period' = viz[2]
    /\ income_ts' = resample(df, "Income", rule)
    /\ expense_ts' = resample(df, "Expense", rule)
    /\ combined_df' = IF viz[1] = "Daily/Monthly Analysis"
                      THEN combined(income_ts', expense_ts') ELSE NoTable

\* The part of main shared by "View Transactions" (button pressed) and
\* "Analytics Dashboard": the query, then either the warning or the three
\* metrics and the visualizations.
ShowTransactions(start_date, end_date, viz) ==
    LET f == initialize_csv(file)
        r == get_transactions(f, strftime(start_date), strftime(end_date))
    IN /\ file' = f
       /\ op' = "get_transactions"
       /\ args' = << strftime(start_date), strftime(end_date) >>
       /\ ret' = r
       /\ IF ret'.df = << >>
          THEN BlankPageNext
          ELSE /\ total_income' = total(ret'.df, "Income")
               /\ total_expense' = total(ret'.df, "Expense")
               /\ balance' = total_income' - total_expense'
               /\ create_visualizations(ret'.df, viz)
       /\ UNCHANGED << appended, procs >>

\* main, "Add Transaction" with the button pressed.
MainAddTransaction(e) ==
    /\ RowCount(initialize_csv(file)) < MaxRows
    /\ file' = add_entry(initialize_csv(file), e)
    /\ op' = "add_entry"
    /\ args' = << >>
    /\ ret' = None
    /\ appended' = Append(appended, e)
    /\ BlankPageNext
    /\ UNCHANGED procs

\* main, "View Transactions" with the button pressed.
MainViewTransactions(start_date, end_date, viz) ==
    /\ ShowTransactions(start_date, end_date, viz)

\* main, "Analytics Dashboard".
MainAnalyticsDashboard(start_date, end_date, viz) ==
    /\ ShowTransactions(start_date, end_date, viz)

\* main on a page whose button is not pressed: only initialize_csv runs.
MainIdle ==
    /\ file' = initialize_csv(file)
    /\ op' = "initialize_csv"
    /\ args' = << >>
    /\ ret' = None
    /\ BlankPageNext
    /\ UNCHANGED << appended, procs >>

Next ==
    \/ \E e \in FormEntries : MainAddTransaction(e)
    \/ \E s \in Dates, e \in Dates, v \in Visualizations : MainViewTransactions(s, e, v)
    \/ \E s \in Dates, e \in Dates, v \in Visualizations : MainAnalyticsDashboard(s, e, v)
    \/ MainIdle

Spec == Init /\ [][Next]_vars

-----------------------------------------------------------------------------
(* Two processes sharing the file.  Each runs main MaxAppends times, adding *)
(* one transaction per run: initialize_csv's read, then (when the read      *)
(* found no file) its to_csv, then add_entry's append.  Each of the three   *)
(* is one step; steps of the two processes interleave.                      *)

ConcEntries ==
    { Entry(strftime(Date(27, 1, 2024)), 100, "Income", "Salary"),
      Entry(strftime(Date(30, 1, 2024)), 30, "Expense", "Rent") }

InitConc ==
    /\ file = NoFile
    /\ op = ""
    /\ args = << >>
    /\ ret = None
    /\ appended = << >>
    /\ BlankPage
    /\ pc = [p \in Procs |-> "read"]
    /\ found = [p \in Procs |-> FALSE]
    /\ written = [p \in Procs |-> << >>]

\* initialize_csv, the try: pd.read_csv raises FileNotFoundError or not.
ProcRead(p) ==
    /\ pc[p] = "read"
    /\ found' = [found EXCEPT ![p] = read_csv(file).error # "FileNotFoundError"]
    /\ pc' = [pc EXCEPT ![p] = IF found'[p] THEN "append" ELSE "create"]
    /\ UNCHANGED << file, op, args, ret, appended, page, written >>

\* initialize_csv, the except: to_csv writes the header-only file.
ProcCreate(p) ==
    /\ pc[p] = "create"
    /\ file' = to_csv_header
    /\ pc' = [pc EXCEPT ![p] = "append"]
    /\ UNCHANGED << op, args, ret, appended, page, found, written >>

\* add_entry: the row is appended in one step.
ProcAppend(p, e) ==
    /\ pc[p] = "append"
    /\ file' = add_entry(file, e)
    /\ written' = [written EXCEPT ![p] = Append(@, e)]
    /\ pc' = [pc EXCEPT ![p] = IF Len(written'[p]) < MaxAppends THEN "read" ELSE "done"]
    /\ UNCHANGED << op, args, ret, appended, page, found >>

NextConc ==
    \E p \in Procs :
        \/ ProcRead(p)
        \/ ProcCreate(p)
        \/ \E e \in ConcEntries : ProcAppend(p, e)

SpecConc == InitConc /\ [][NextConc]_vars

-----------------------------------------------------------------------------
(* Properties of the CSV class (checked under SpecApi).                    *)

IsPrefix(s, t) == Len(s) <= Len(t) /\ SubSeq(t, 1, Len(s)) = s

\* The transaction rows of a file: its lines other than the header line.
Rows(f) == SelectSeq(f.lines, LAMBDA l : l # HeaderLine)

\* The last call was a get_transactions whose range covers every appended entry.
CoversAll ==
    /\ op = "get_transactions"
    /\ \A i \in 1 .. Len(appended) :
         mask(strptime(appended[i].date), strptime(args[1]), strptime(args[2]))

\* The ledger was initialized (header only) before the first append.
InitializedFirst ==
    /\ file.exists
    /\ Head(file.lines) = HeaderLine
    /\ Len(file.lines) = 1 + Len(appended)

\* C1: from a header-only ledger, after n appends a load over a range covering
\* them returns n rows whose date, amount, category and description equal the
\* appended values, in append order.
C1_AppendThenLoadRoundTrip ==
    (InitializedFirst /\ CoversAll) =>
        /\ ret.error = ""
        /\ Len(ret.df) = Len(appended)
        /\ \A i \in 1 .. Len(appended) :
             /\ ret.df[i].date = strptime(appended[i].date)
             /\ ret.df[i].amount = appended[i].amount
             /\ ret.df[i].category = Str(appended[i].category)
             /\ ret.df[i].description = Str(appended[i].description)

\* C2: the ledger is append-only: every operation keeps the stored rows (and
\* the lines of an existing file) as a prefix of what is stored after it;
\* initialize_csv on an existing file and every get_transactions change nothing.
C2_AppendOnly ==
    [][ /\ IsPrefix(Rows(file), Rows(file'))
        /\ (file.exists => file'.exists /\ IsPrefix(file.lines, file'.lines))
        /\ (op' = "get_transactions" => file' = file)
        /\ (op' = "initialize_csv" /\ file.exists => file' = file) ]_vars

\* C2 witness: initialize_csv has run on a ledger that already held two rows.
C2_Witness == op = "initialize_csv" /\ Len(Rows(file)) >= 2 /\ Len(appended) >= 2

\* C3: a range query issued while the file does not exist yields an empty
\* result and no error.
C3_LoadWithoutFileIsEmpty ==
    (op = "get_transactions" /\ ~file.exists) => ret = Returned(<< >>)

\* C10: whenever the file exists its first line is the header and every later
\* line is a transaction row, whatever the order of the operations.
C10_HeaderInvariant ==
    file.exists =>
        /\ Len(file.lines) >= 1
        /\ Head(file.lines) = HeaderLine
        /\ \A i \in 2 .. Len(file.lines) : file.lines[i].kind = "row"

-----------------------------------------------------------------------------
(* Properties of the range query and the aggregates (checked under Spec).  *)

\* The transaction stored in the file at data index k (0-based), as read.
Stored(k) ==
    LET l == file.lines[k + 2] IN
    [ index       |-> k,
      date        |-> strptime(l.date),
      amount      |-> l.amount,
      category    |-> ReadCell(l.category),
      description |-> ReadCell(l.description) ]

Within(d, lo, hi) == ~Earlier(d, lo) /\ ~Earlier(hi, d)

QueryDone == op = "get_transactions" /\ ret.error = ""

\* C4: the range query returns exactly the stored transactions dated from the
\* start bound to the end bound, both included, in ledger order, each once.
C4_RangeQueryInclusiveStable ==
    QueryDone =>
        LET lo == strptime(args[1])
            hi == strptime(args[2])
            n  == Len(file.lines) - 1
        IN /\ \A j \in 1 .. Len(ret.df) :
                /\ ret.df[j].index \in 0 .. (n - 1)
                /\ ret.df[j] = Stored(ret.df[j].index)
                /\ Within(ret.df[j].date, lo, hi)
           /\ \A k \in 0 .. (n - 1) :
                Within(Stored(k).date, lo, hi) =>
                    \E j \in 1 .. Len(ret.df) : ret.df[j].index = k
           /\ \A j \in 1 .. (Len(ret.df) - 1) : ret.df[j].index < ret.df[j + 1].index

\* C4 witness: a query returned a row dated exactly its start bound and a row
\* dated exactly its end bound, and left a stored row out.
C4_Witness ==
    /\ QueryDone
    /\ args[1] # args[2]
    /\ \E j \in 1 .. Len(ret.df) : ret.df[j].date = strptime(args[1])
    /\ \E j \in 1 .. Len(ret.df) : ret.df[j].date = strptime(args[2])
    /\ Len(ret.df) < Len(file.lines) - 1

\* C8: every transaction returned for a range is returned for every range that
\* contains it.
C8_RangeQueryMonotone ==
    QueryDone =>
        \A s2 \in DateTexts, e2 \in DateTexts :
            ( /\ ~Earlier(strptime(args[1]), strptime(s2))
              /\ ~Earlier(strptime(e2), strptime(args[2])) ) =>
                LET wide == get_transactions(file, s2, e2).df IN
                \A j \in 1 .. Len(ret.df) :
                    \E k \in 1 .. Len(wide) : wide[k] = ret.df[j]

\* C8 witness: a one-day range in the middle returned a row, and wider ranges exist.
C8_Witness ==
    /\ QueryDone
    /\ args = << strftime(Date(30, 1, 2024)), strftime(Date(30, 1, 2024)) >>
    /\ Len(ret.df) >= 1
    /\ Len(get_transactions(file, strftime(Date(27, 1, 2024)), strftime(Date(2, 2, 2024))).df)
         > Len(ret.df)

RECURSIVE SumAt(_, _)
\* The sum of the amounts of the rows at the positions in S.
SumAt(rows, S) ==
    IF S = {} THEN 0
    ELSE LET i == CHOOSE i \in S : TRUE IN rows[i].amount + SumAt(rows, S \ {i})

Positions(rows, category) ==
    { i \in 1 .. Len(rows) : ~rows[i].category.isna /\ rows[i].category.text = category }

MetricsShown == QueryDone /\ ret.df # << >>

\* C6: the income total is the sum of amount over the rows whose category is
\* exactly "Income", the expense total the sum over those whose category is
\* exactly "Expense", and net = income - expense; other rows count for neither;
\* the totals of the empty subset are 0.
C6_Totals ==
    /\ MetricsShown =>
         /\ total_income = SumAt(ret.df, Positions(ret.df, "Income"))
         /\ total_expense = SumAt(ret.df, Positions(ret.df, "Expense"))
         /\ balance = total_income - total_expense
    /\ total(<< >>, "Income") = 0
    /\ total(<< >>, "Expense") = 0

\* C6 witness: totals were computed over a subset holding an Income row, an
\* Expense row and a row of another category.
C6_Witness ==
    /\ MetricsShown
    /\ total_income > 0
    /\ total_expense > 0
    /\ \E j \in 1 .. Len(ret.df) : ret.df[j].category = Str("Other")

SeriesComputed == QueryDone /\ viz_type # ""

\* The two series on the page with the category each was resampled for.
SeriesShown == { << "Income", income_ts >>, << "Expense", expense_ts >> }

BucketDates(ts) == { ts[i].date : i \in 1 .. Len(ts) }

Ascending(ts) == \A i \in 1 .. (Len(ts) - 1) : Earlier(ts[i].date, ts[i + 1].date)

\* A date truncated to the start of its period.
PeriodStart(d) == IF time_period = "Monthly" THEN Date(1, d.month, d.year) ELSE d

\* The last day of a date's period.
PeriodEnd(d) ==
    IF time_period = "Monthly" THEN Date(DaysInMonth(d.year, d.month), d.month, d.year) ELSE d

\* C7 as stated: the buckets of a resampled series are keyed by the dates of
\* the category's rows truncated to the period start (Day: the date; Month:
\* the first of the month), each holds the sum of the rows of its period, and
\* they are in ascending order.
C7_BucketsKeyedByPeriodStart ==
    SeriesComputed =>
        \A c \in SeriesShown :
            LET ts == c[2]
                P  == Positions(ret.df, c[1])
            IN /\ BucketDates(ts) = { PeriodStart(ret.df[j].date) : j \in P }
               /\ \A i \in 1 .. Len(ts) :
                    ts[i].amount =
                        SumAt(ret.df, { j \in P : PeriodStart(ret.df[j].date) = ts[i].date })
               /\ Ascending(ts)

\* C7 amended: a resampled series has one bucket for every period from that of
\* the category's earliest row to that of its latest row, keyed by the day
\* itself (Day) or by the last day of the month (Month); each bucket holds the
\* sum of the category's rows falling in its period (0 when there is none),
\* and the buckets are in ascending order.  No rows, no buckets.
C7_BucketsKeyedByPeriodEnd ==
    SeriesComputed =>
        \A c \in SeriesShown :
            LET ts == c[2]
                P  == Positions(ret.df, c[1])
            IN /\ P = {} => ts = << >>
               /\ P # {} =>
                    /\ ts # << >>
                    /\ \A j \in P : PeriodEnd(ret.df[j].date) \in BucketDates(ts)
                    /\ \E j \in P : PeriodEnd(ret.df[j].date) = ts[1].date
                    /\ \E j \in P : PeriodEnd(ret.df[j].date) = ts[Len(ts)].date
                    /\ \A i \in 1 .. (Len(ts) - 1) :
                         ts[i + 1].date = PeriodEnd(NextDay(ts[i].date))
               /\ \A i \in 1 .. Len(ts) :
                    ts[i].amount =
                        SumAt(ret.df, { j \in P : PeriodEnd(ret.df[j].date) = ts[i].date })
               /\ Ascending(ts)

\* C7 witness: a monthly resample put two Income rows of January into a single
\* bucket holding their sum.
C7_Witness ==
    /\ SeriesComputed
    /\ time_period = "Monthly"
    /\ Cardinality(Positions(ret.df, "Income")) = 2
    /\ Cardinality({ ret.df[j].date : j \in Positions(ret.df, "Income") }) = 2
    /\ Len(income_ts) = 1
    /\ income_ts[1].amount = 160

TableBuilt == SeriesComputed /\ viz_type = "Daily/Monthly Analysis" /\ combined_df.error = ""

\* C5: the combined table has one row per bucket date of either series, in
\* ascending order; a side with no bucket at that date is 0 there; and
\* net = income - expense in every row.
C5_CombinedUnionZeroFilled ==
    TableBuilt =>
        LET rows == combined_df.rows
            side(ts, l) == IF l \in BucketDates(ts) THEN At(ts, l) ELSE Num(0)
        IN /\ BucketDates(rows) = BucketDates(income_ts) \cup BucketDates(expense_ts)
           /\ Ascending(rows)
           /\ \A i \in 1 .. Len(rows) :
                /\ rows[i].Income = side(income_ts, rows[i].date)
                /\ rows[i].Expense = side(expense_ts, rows[i].date)
                /\ rows[i].Net = Num(rows[i].Income.value - rows[i].Expense.value)

-----------------------------------------------------------------------------
(* Property of two concurrent processes (checked under SpecConc).          *)

Count(seq, x) == Cardinality({ i \in 1 .. Len(seq) : seq[i] = x })

RECURSIVE IsSubsequence(_, _)
\* s can be obtained from t by deleting elements.
IsSubsequence(s, t) ==
    IF s = << >> THEN TRUE
    ELSE IF t = << >> THEN FALSE
    ELSE IF Head(s) = Head(t) THEN IsSubsequence(Tail(s), Tail(t))
    ELSE IsSubsequence(s, Tail(t))

AllDone == \A p \in Procs : pc[p] = "done"

\* C9: when both processes have finished, every row either of them appended is
\* in the ledger as often as it was appended, and each process's rows are
\* there in the order that process appended them.
C9_NoAppendLost ==
    AllDone =>
        /\ \A e \in ConcEntries :
             Count(Rows(file), writerow(e)) = Count(written[1], e) + Count(written[2], e)
        /\ \A p \in Procs :
             IsSubsequence([i \in 1 .. Len(written[p]) |-> writerow(written[p][i])], Rows(file))

====
